---- MODULE Spec2Model ----
(***************************************************************************)
(* Model of package toon (mt-toon): the response Handler built from raw    *)
(* bytes (NewHandler) or from an HTTP response (FromHTTPResponse), its     *)
(* read accessors, UnmarshalData and Validate.                             *)
(*                                                                         *)
(* A body is a sequence of lexical chunks of JSON text.  The chunks that   *)
(* occur are listed in Tokens: each member chunk is one "key": value pair  *)
(* of the envelope object (the braces and commas around the members are    *)
(* implied), "null" is the JSON literal null and "X" is a chunk that is no *)
(* JSON at all.  Go pointers are records with a set flag (set = FALSE is   *)
(* the nil pointer); byte slices are sequences of chunks.                  *)
(***************************************************************************)
EXTENDS Integers, Sequences, FiniteSets, TLC

\* ---------------------------------------------------------------- bounds
MaxBodyLen == 3
MaxHTTPBodyLen == 2
MaxReturned == 2
NumThreads == 2

\* ------------------------------------------------------- error codes
ErrCodeInvalidResponse == "INVALID_RESPONSE"
ErrCodeEmptyResponse == "EMPTY_RESPONSE"
ErrCodeJSONUnmarshal == "JSON_UNMARSHAL"
ErrCodeNilHandler == "NIL_HANDLER"
ErrCodeNilResponse == "NIL_RESPONSE"
ErrCodeEmptyData == "EMPTY_DATA"
ErrCodeIORead == "IO_READ"
ErrCodeInvalidStatusCode == "INVALID_STATUS_CODE"
NoErr == ""

\* ------------------------------------------------------- the envelope
\* *ResponseError: set = FALSE is the nil pointer.
NilError == [set |-> FALSE, Code |-> "", Message |-> "", Details |-> "", Field |-> ""]
NewError == [NilError EXCEPT !.set = TRUE]

\* *RateLimit.  Reset is a time: 0 is the zero time.
NilRateLimit == [set |-> FALSE, Limit |-> 0, Remaining |-> 0, Reset |-> 0]
NewRateLimit == [NilRateLimit EXCEPT !.set = TRUE]

\* *Meta.  Timestamp is a time: 0 is the zero time.
NilMeta == [set |-> FALSE, Timestamp |-> 0, RequestID |-> "", APIVersion |-> "",
            RateLimit |-> NilRateLimit]
NewMeta == [NilMeta EXCEPT !.set = TRUE]

\* *Response.  Data is json.RawMessage: the payload's chunks, <<>> when absent.
NilResponse == [set |-> FALSE, Success |-> FALSE, Data |-> <<>>, Error |-> NilError,
                Meta |-> NilMeta]
ZeroResponse == [NilResponse EXCEPT !.set = TRUE]

\* A []byte: isNil distinguishes the nil slice from an empty one.
NilBytes == [isNil |-> TRUE, bytes |-> <<>>]
Bytes(s) == [isNil |-> FALSE, bytes |-> s]

\* *Handler: isNil = TRUE is the nil pointer.
NilHandlerPtr == [isNil |-> TRUE, resp |-> NilResponse, body |-> NilBytes]
ZeroHandler == [isNil |-> FALSE, resp |-> NilResponse, body |-> NilBytes]

\* ------------------------------------------------------- JSON text
\* Member chunks of the envelope object, by the key they carry.
SuccessTokens == {"ST", "SF", "SX"}
ErrorTokens == {"EC", "EM"}
DataTokens == {"DO", "DN"}
MetaTokens == {"MR", "MLP", "ML0", "MLN"}
MemberTokens == SuccessTokens \cup ErrorTokens \cup DataTokens \cup MetaTokens
\* Further error members: "error": {} (E0), one carrying details (ED) and one
\* carrying field (EF).
ErrorFieldTokens == {"E0", "ED", "EF"}
EnvelopeTokens == MemberTokens \cup ErrorFieldTokens
Tokens == MemberTokens \cup {"null", "X"}

\* The payload chunks a data member carries.
ObjectPayload == <<"{\"id\":1}">>
NullPayload == <<"null">>

\* encoding/json's walk over one member of the envelope object: the field the
\* key names is set; a pointer field that is still nil is allocated first and
\* one that is already set keeps its other fields.  "SX" carries a string
\* where a bool is expected: the decoder notes the type error and goes on.
ApplyMember(r, tok) ==
    LET e == IF r.Error.set THEN r.Error ELSE NewError
        m == IF r.Meta.set THEN r.Meta ELSE NewMeta
        rl == IF m.RateLimit.set THEN m.RateLimit ELSE NewRateLimit
        lim(n) == [r EXCEPT !.Meta = [m EXCEPT !.RateLimit =
                      [rl EXCEPT !.Limit = 10, !.Remaining = n, !.Reset = 1]]]
    IN CASE tok = "ST" -> [r EXCEPT !.Success = TRUE]
         [] tok = "SF" -> [r EXCEPT !.Success = FALSE]
         [] tok = "EC" -> [r EXCEPT !.Error = [e EXCEPT !.Code = "c"]]
         [] tok = "EM" -> [r EXCEPT !.Error = [e EXCEPT !.Message = "m"]]
         [] tok = "E0" -> [r EXCEPT !.Error = e]
         [] tok = "ED" -> [r EXCEPT !.Error = [e EXCEPT !.Details = "d"]]
         [] tok = "EF" -> [r EXCEPT !.Error = [e EXCEPT !.Field = "f"]]
         [] tok = "DO" -> [r EXCEPT !.Data = ObjectPayload]
         [] tok = "DN" -> [r EXCEPT !.Data = NullPayload]
         [] tok = "MR" -> [r EXCEPT !.Meta = [m EXCEPT !.RequestID = "r",
                                   !.APIVersion = "v1", !.Timestamp = 1]]
         [] tok = "MLP" -> lim(1)
         [] tok = "ML0" -> lim(0)
         [] tok = "MLN" -> lim(-1)
         [] OTHER -> r

RECURSIVE DecodeMembers(_, _)
DecodeMembers(r, s) ==
    IF s = <<>> THEN r ELSE DecodeMembers(ApplyMember(r, Head(s)), Tail(s))

\* The text is valid JSON: the literal null, or an object of members.
ValidJSON(s) ==
    \/ s = <<"null">>
    \/ Len(s) > 0 /\ \A i \in 1..Len(s) : s[i] \in EnvelopeTokens

\* json.Unmarshal(body, &resp) into a zero Response: a syntax error leaves resp
\* untouched, a type error is returned after the rest was decoded, and the
\* literal null decodes into a struct as a no-op.
UnmarshalResponse(s) ==
    IF ~ValidJSON(s) THEN [ok |-> FALSE, resp |-> ZeroResponse]
    ELSE IF s = <<"null">> THEN [ok |-> TRUE, resp |-> ZeroResponse]
    ELSE [ok |-> \A i \in 1..Len(s) : s[i] # "SX",
          resp |-> DecodeMembers(ZeroResponse, s)]

\* ------------------------------------------------------- NewHandler
\* NewHandler without its len(body) == 0 check: an empty body reaches the parser.
NewHandlerNoEmptyCheck(b) ==
    IF b.isNil THEN
        [h |-> NilHandlerPtr, err |-> ErrCodeEmptyResponse, parsed |-> FALSE]
    ELSE LET u == UnmarshalResponse(b.bytes)
         IN IF ~u.ok THEN
                [h |-> NilHandlerPtr, err |-> ErrCodeJSONUnmarshal, parsed |-> TRUE]
            ELSE [h |-> [isNil |-> FALSE, resp |-> u.resp, body |-> b],
                  err |-> NoErr, parsed |-> TRUE]

\* NewHandler(body): the handler, the error's code (NoErr for nil) and whether
\* json.Unmarshal was called.
NewHandler(b) ==
    IF b.isNil THEN
        [h |-> NilHandlerPtr, err |-> ErrCodeEmptyResponse, parsed |-> FALSE]
    ELSE IF Len(b.bytes) = 0 THEN
        [h |-> NilHandlerPtr, err |-> ErrCodeEmptyResponse, parsed |-> FALSE]
    ELSE LET u == UnmarshalResponse(b.bytes)
         IN IF ~u.ok THEN
                [h |-> NilHandlerPtr, err |-> ErrCodeJSONUnmarshal, parsed |-> TRUE]
            ELSE [h |-> [isNil |-> FALSE, resp |-> u.resp, body |-> b],
                  err |-> NoErr, parsed |-> TRUE]

\* ------------------------------------------------------- call results
\* What a call hands back: panicked (a run-time panic instead of a return), a
\* bool (b), a string (str), a pointer or slice (nonnil, with the value it
\* points to in bytes, errv, metav, rlv, respv or t), an error code (err), and
\* for UnmarshalData what happened to the target.
Ret == [panicked |-> FALSE, b |-> FALSE, str |-> "", nonnil |-> FALSE, bytes |-> <<>>,
        errv |-> NilError, metav |-> NilMeta, rlv |-> NilRateLimit,
        respv |-> NilResponse, t |-> 0, err |-> NoErr, target |-> "untouched"]
Panic == [Ret EXCEPT !.panicked = TRUE]
RetBool(v) == [Ret EXCEPT !.b = v]
RetStr(v) == [Ret EXCEPT !.str = v]
RetNil == Ret
RetBytes(s) == [Ret EXCEPT !.nonnil = TRUE, !.bytes = s]
RetErrCode(c) == [Ret EXCEPT !.err = c]

\* h.mu.RLock() evaluates &h.mu: with a nil receiver that is a nil pointer
\* dereference, before the method's own nil check is reached.
RLockPanics(hh) == hh.isNil

\* ------------------------------------------------------- accessors
IsSuccess(hh) ==
    IF RLockPanics(hh) THEN Panic
    ELSE IF hh.isNil \/ ~hh.resp.set THEN RetBool(FALSE)
    ELSE RetBool(hh.resp.Success)

\* IsError that forgets to ask whether an error detail is present.
IsErrorNotSuccess(hh) ==
    IF RLockPanics(hh) THEN Panic
    ELSE IF hh.isNil \/ ~hh.resp.set THEN RetBool(TRUE)
    ELSE RetBool(~hh.resp.Success)

\* IsError that reports any error detail, whatever the success flag says.
IsErrorAnyDetail(hh) ==
    IF RLockPanics(hh) THEN Panic
    ELSE IF ~hh.resp.set THEN RetBool(TRUE)
    ELSE RetBool(hh.resp.Error.set)

IsError(hh) ==
    IF RLockPanics(hh) THEN Panic
    ELSE IF hh.isNil \/ ~hh.resp.set THEN RetBool(TRUE)
    ELSE RetBool(~hh.resp.Success /\ hh.resp.Error.set)

GetError(hh) ==
    IF RLockPanics(hh) THEN Panic
    ELSE IF hh.isNil \/ ~hh.resp.set THEN RetNil
    ELSE [Ret EXCEPT !.nonnil = hh.resp.Error.set, !.errv = hh.resp.Error]

\* parts joined by " | ", the first part without a separator before it.
RECURSIVE JoinParts(_, _)
JoinParts(result, parts) ==
    IF parts = <<>> THEN result
    ELSE JoinParts(result \o " | " \o Head(parts), Tail(parts))

\* ErrorString that leaves an empty code out of the parts.
ErrorStringSkipEmptyCode(hh) ==
    LET r == GetError(hh)
        e == r.errv
        parts == (IF e.Code # "" THEN <<e.Code>> ELSE <<>>)
                 \o (IF e.Message # "" THEN <<e.Message>> ELSE <<>>)
                 \o (IF e.Details # "" THEN <<e.Details>> ELSE <<>>)
                 \o (IF e.Field # "" THEN <<"field: " \o e.Field>> ELSE <<>>)
    IN IF r.panicked THEN Panic
       ELSE IF ~r.nonnil \/ parts = <<>> THEN RetStr("")
       ELSE RetStr(JoinParts(Head(parts), Tail(parts)))

ErrorString(hh) ==
    LET r == GetError(hh)
        e == r.errv
        parts == <<e.Code>>
                 \o (IF e.Message # "" THEN <<e.Message>> ELSE <<>>)
                 \o (IF e.Details # "" THEN <<e.Details>> ELSE <<>>)
                 \o (IF e.Field # "" THEN <<"field: " \o e.Field>> ELSE <<>>)
    IN IF r.panicked THEN Panic
       ELSE IF ~r.nonnil THEN RetStr("")
       ELSE RetStr(JoinParts(Head(parts), Tail(parts)))

GetData(hh) ==
    IF RLockPanics(hh) THEN Panic
    ELSE IF hh.isNil \/ ~hh.resp.set THEN RetNil
    ELSE IF Len(hh.resp.Data) = 0 THEN RetNil
    ELSE RetBytes(hh.resp.Data)

GetMeta(hh) ==
    IF RLockPanics(hh) THEN Panic
    ELSE IF hh.isNil \/ ~hh.resp.set THEN RetNil
    ELSE [Ret EXCEPT !.nonnil = hh.resp.Meta.set, !.metav = hh.resp.Meta]

GetRequestID(hh) ==
    LET r == GetMeta(hh)
    IN IF r.panicked THEN Panic
       ELSE IF ~r.nonnil THEN RetStr("")
       ELSE RetStr(r.metav.RequestID)

GetRateLimit(hh) ==
    LET r == GetMeta(hh)
    IN IF r.panicked THEN Panic
       ELSE IF ~r.nonnil THEN RetNil
       ELSE [Ret EXCEPT !.nonnil = r.metav.RateLimit.set, !.rlv = r.metav.RateLimit]

\* IsRateLimited comparing with == 0: a negative remaining is not limited.
IsRateLimitedOnlyZero(hh) ==
    LET r == GetRateLimit(hh)
    IN IF r.panicked THEN Panic
       ELSE IF ~r.nonnil THEN RetBool(FALSE)
       ELSE RetBool(r.rlv.Remaining = 0)

IsRateLimited(hh) ==
    LET r == GetRateLimit(hh)
    IN IF r.panicked THEN Panic
       ELSE IF ~r.nonnil THEN RetBool(FALSE)
       ELSE RetBool(r.rlv.Remaining <= 0)

GetRateLimitReset(hh) ==
    LET r == GetRateLimit(hh)
    IN IF r.panicked THEN Panic
       ELSE IF ~r.nonnil THEN RetNil
       ELSE [Ret EXCEPT !.nonnil = TRUE, !.t = r.rlv.Reset]

\* time.Time.Format(time.RFC3339) of the two times the model knows.
FormatRFC3339(t) == IF t = 0 THEN "0001-01-01T00:00:00Z" ELSE "2025-12-31T23:59:59Z"

GetRateLimitStatus(hh) ==
    LET r == GetRateLimit(hh)
        remaining == IF r.rlv.Remaining < 0 THEN 0 ELSE r.rlv.Remaining
    IN IF r.panicked THEN Panic
       ELSE IF ~r.nonnil THEN RetStr("rate limit information not available")
       ELSE RetStr(ToString(remaining) \o "/" \o ToString(r.rlv.Limit)
                   \o " requests remaining (reset: "
                   \o FormatRFC3339(r.rlv.Reset) \o ")")

GetAPIVersion(hh) ==
    LET r == GetMeta(hh)
    IN IF r.panicked THEN Panic
       ELSE IF ~r.nonnil THEN RetStr("")
       ELSE RetStr(r.metav.APIVersion)

GetTimestamp(hh) ==
    LET r == GetMeta(hh)
    IN IF r.panicked THEN Panic
       ELSE IF ~r.nonnil \/ r.metav.Timestamp = 0 THEN RetNil
       ELSE [Ret EXCEPT !.nonnil = TRUE, !.t = r.metav.Timestamp]

\* String that looks at the error detail before the success flag.
StringErrorFirst(hh) ==
    IF hh.isNil \/ ~hh.resp.set THEN RetStr("Handler(nil)")
    ELSE IF hh.resp.Success /\ ~hh.resp.Error.set THEN
        LET id == GetRequestID(hh)
        IN IF id.panicked THEN Panic
           ELSE IF id.str # "" THEN RetStr("Handler(Success, RequestID=" \o id.str \o ")")
           ELSE RetStr("Handler(Success)")
    ELSE LET es == ErrorString(hh)
         IN IF es.panicked THEN Panic
            ELSE IF es.str # "" THEN RetStr("Handler(Error=" \o es.str \o ")")
            ELSE RetStr("Handler(Error)")

String(hh) ==
    IF hh.isNil \/ ~hh.resp.set THEN RetStr("Handler(nil)")
    ELSE IF hh.resp.Success THEN
        LET id == GetRequestID(hh)
        IN IF id.panicked THEN Panic
           ELSE IF id.str # "" THEN RetStr("Handler(Success, RequestID=" \o id.str \o ")")
           ELSE RetStr("Handler(Success)")
    ELSE LET es == ErrorString(hh)
         IN IF es.panicked THEN Panic
            ELSE IF es.str # "" THEN RetStr("Handler(Error=" \o es.str \o ")")
            ELSE RetStr("Handler(Error)")

RawBody(hh) ==
    IF RLockPanics(hh) THEN Panic
    ELSE IF hh.isNil \/ hh.body.isNil THEN RetNil
    ELSE RetBytes(hh.body.bytes)

Response(hh) ==
    IF RLockPanics(hh) THEN Panic
    ELSE IF hh.isNil THEN RetNil
    ELSE [Ret EXCEPT !.nonnil = hh.resp.set, !.respv = hh.resp]

\* ------------------------------------------------------- Validate
\* Validate that checks the error detail only when success is false.
ValidateOnlyOnFailure(hh) ==
    IF hh.isNil THEN RetErrCode(ErrCodeNilHandler)
    ELSE IF ~hh.resp.set THEN RetErrCode(ErrCodeNilResponse)
    ELSE IF ~hh.resp.Success /\ ~hh.resp.Error.set THEN RetErrCode(ErrCodeInvalidResponse)
    ELSE IF ~hh.resp.Success /\ hh.resp.Error.Code = "" THEN
        RetErrCode(ErrCodeInvalidResponse)
    ELSE IF ~hh.resp.Success /\ hh.resp.Error.Message = "" THEN
        RetErrCode(ErrCodeInvalidResponse)
    ELSE RetErrCode(NoErr)

Validate(hh) ==
    IF hh.isNil THEN RetErrCode(ErrCodeNilHandler)
    ELSE IF ~hh.resp.set THEN RetErrCode(ErrCodeNilResponse)
    ELSE IF ~hh.resp.Success /\ ~hh.resp.Error.set THEN RetErrCode(ErrCodeInvalidResponse)
    ELSE IF hh.resp.Error.set /\ hh.resp.Error.Code = "" THEN
        RetErrCode(ErrCodeInvalidResponse)
    ELSE IF hh.resp.Error.set /\ hh.resp.Error.Message = "" THEN
        RetErrCode(ErrCodeInvalidResponse)
    ELSE RetErrCode(NoErr)

\* ------------------------------------------------------- UnmarshalData
\* The targets a caller can pass as v: the untyped nil interface, a typed nil
\* pointer, a value that is no pointer, and pointers to a struct with id and
\* name fields, to a []string and to a map[string]interface{}.
Targets == {"nil", "nilptr", "value", "struct", "slice", "map"}

\* json.Unmarshal(data, v): a target that is no pointer or a nil pointer is
\* refused; text that is no JSON is a syntax error; null decodes without an
\* error, leaving a struct as it was and setting a slice or map to nil; an
\* object fills a struct or a map and is a type error for a slice.
UnmarshalInto(data, target) ==
    IF data # ObjectPayload /\ data # NullPayload THEN [ok |-> FALSE, target |-> "untouched"]
    ELSE IF target \in {"nilptr", "value"} THEN [ok |-> FALSE, target |-> "untouched"]
    ELSE IF data = NullPayload THEN
        [ok |-> TRUE, target |-> IF target = "struct" THEN "untouched" ELSE "zeroed"]
    ELSE IF target = "slice" THEN [ok |-> FALSE, target |-> "untouched"]
    ELSE [ok |-> TRUE, target |-> "populated"]

\* UnmarshalData that looks at the payload before it looks at the target.
UnmarshalDataPayloadFirst(hh, v) ==
    LET data == GetData(hh)
        u == UnmarshalInto(data.bytes, v)
    IN IF data.panicked THEN Panic
       ELSE IF Len(data.bytes) = 0 THEN RetErrCode(ErrCodeEmptyData)
       ELSE IF v = "nil" THEN RetErrCode(ErrCodeInvalidResponse)
       ELSE IF ~u.ok THEN [Ret EXCEPT !.err = ErrCodeJSONUnmarshal, !.target = u.target]
       ELSE [Ret EXCEPT !.err = NoErr, !.target = u.target]

UnmarshalData(hh, v) ==
    IF v = "nil" THEN RetErrCode(ErrCodeInvalidResponse)
    ELSE LET data == GetData(hh)
             u == UnmarshalInto(data.bytes, v)
         IN IF data.panicked THEN Panic
            ELSE IF Len(data.bytes) = 0 THEN RetErrCode(ErrCodeEmptyData)
            ELSE IF ~u.ok THEN [Ret EXCEPT !.err = ErrCodeJSONUnmarshal, !.target = u.target]
            ELSE [Ret EXCEPT !.err = NoErr, !.target = u.target]

\* ------------------------------------------------------- the caller
ReadOps == {"IsSuccess", "IsError", "GetError", "ErrorString", "GetData", "GetMeta",
            "GetRequestID", "GetAPIVersion", "GetTimestamp", "GetRateLimit",
            "IsRateLimited", "GetRateLimitReset", "GetRateLimitStatus", "RawBody",
            "Response", "String"}

\* The method a caller's h.<op>() runs.
Invoke(op, hh) ==
    CASE op = "IsSuccess" -> IsSuccess(hh)
      [] op = "IsError" -> IsError(hh)
      [] op = "GetError" -> GetError(hh)
      [] op = "ErrorString" -> ErrorString(hh)
      [] op = "GetData" -> GetData(hh)
      [] op = "GetMeta" -> GetMeta(hh)
      [] op = "GetRequestID" -> GetRequestID(hh)
      [] op = "GetAPIVersion" -> GetAPIVersion(hh)
      [] op = "GetTimestamp" -> GetTimestamp(hh)
      [] op = "GetRateLimit" -> GetRateLimit(hh)
      [] op = "IsRateLimited" -> IsRateLimited(hh)
      [] op = "GetRateLimitReset" -> GetRateLimitReset(hh)
      [] op = "GetRateLimitStatus" -> GetRateLimitStatus(hh)
      [] op = "RawBody" -> RawBody(hh)
      [] op = "Response" -> Response(hh)
      [] op = "String" -> String(hh)
      [] op = "Validate" -> Validate(hh)

\* Texts that are not one JSON value: garbage, an object cut short by garbage,
\* and trailing data after a complete value.
MalformedSeqs == {<<"X">>, <<"ST", "X">>, <<"null", "null">>}
\* The bodies given to NewHandler: the nil slice, the empty slice, the literal
\* null, every object of at most MaxBodyLen members, and the malformed texts.
BodySeqs == (UNION {[1..n -> MemberTokens] : n \in 0..MaxBodyLen})
              \cup {<<"null">>} \cup MalformedSeqs
Bodies == {NilBytes} \cup {Bytes(s) : s \in BodySeqs}

NoCall == [op |-> "", v |-> "", r |-> Ret]

VARIABLES
    pc,      \* "start": before construction; "made": the caller holds h;
             \* "panicked": a call panicked
    ctor,    \* how h was made: "NewHandler", or "literal" for &Handler{}
    body,    \* the []byte the caller passes to NewHandler
    h,       \* the *Handler the caller holds
    newErr,  \* the error code NewHandler returned
    parsed,  \* whether NewHandler called json.Unmarshal
    last     \* the caller's last call on h and what it returned

mainVars == <<pc, ctor, body, h, newErr, parsed, last>>

\* FromHTTPResponse(httpResp), one call followed statement by statement.
VARIABLES
    fpc,       \* the statement the call is at; "idle": no call; "done": returned
    httpResp,  \* the *http.Response passed in
    deferred,  \* whether the deferred Body.Close() is registered
    closes,    \* how many times Body.Close() was called
    readBuf,   \* body, as io.ReadAll returned it
    fh,        \* the local variable handler
    retH,      \* the *Handler returned
    retErr,    \* the code of the error returned
    trail      \* the statements executed so far, in order

httpVars == <<fpc, httpResp, deferred, closes, readBuf, fh, retH, retErr, trail>>

\* The caller's and the handler's byte arrays, for the copies the accessors make.
VARIABLES
    apc,           \* "idle": unused; "start": before NewHandler; "made"; "failed"
    mem,           \* the byte arrays: mem[a] is the content of the array at address a
    ah,            \* the handler: its envelope, and the addresses of the arrays
                   \* behind h.body and h.resp.Data (0: a nil slice)
    held,          \* the addresses of the slices RawBody and GetData returned
    firstRaw,      \* what the first RawBody() call returned
    lastRaw,       \* what the latest RawBody() call returned
    firstData,     \* what the first GetData() call returned
    lastData,      \* what the latest GetData() call returned
    inputWritten,  \* whether the caller overwrote the array it passed as body
    observed       \* what the accessors returned right after NewHandler returned

aliasVars == <<apc, mem, ah, held, firstRaw, lastRaw, firstData, lastData, inputWritten,
               observed>>

\* Goroutines calling accessors of one handler at the same time.
VARIABLES
    ch,       \* the handler the goroutines share
    readers,  \* h.mu: the number of read locks held
    writer,   \* h.mu: whether the write lock is held
    tpc,      \* per goroutine, where its call is: "idle", "rlock", "locked",
              \* "runlock", "after" (past the unlock), "return"
    top,      \* per goroutine, the accessor it is calling
    tval,     \* per goroutine, what its call has read so far
    tret      \* per goroutine, its last finished call and what it returned

concVars == <<ch, readers, writer, tpc, top, tval, tret>>

vars == <<mainVars, httpVars, aliasVars, concVars>>

Threads == 1..NumThreads

\* No goroutine is started.
ConcIdle ==
    /\ ch = NilHandlerPtr
    /\ readers = 0
    /\ writer = FALSE
    /\ tpc = [t \in Threads |-> "off"]
    /\ top = [t \in Threads |-> ""]
    /\ tval = [t \in Threads |-> Ret]
    /\ tret = [t \in Threads |-> NoCall]

NotCalled == [called |-> FALSE, nonnil |-> FALSE, bytes |-> <<>>]
NoRefHandler == [isNil |-> TRUE, resp |-> NilResponse, bodyAddr |-> 0, dataAddr |-> 0]

\* The byte arrays are not in use.
AliasIdle ==
    /\ apc = "idle"
    /\ mem = <<>>
    /\ ah = NoRefHandler
    /\ held = <<>>
    /\ firstRaw = NotCalled
    /\ lastRaw = NotCalled
    /\ firstData = NotCalled
    /\ lastData = NotCalled
    /\ inputWritten = FALSE
    /\ observed = <<>>

\* No FromHTTPResponse call is in progress.
HTTPIdle ==
    /\ fpc = "idle"
    /\ httpResp = [isNil |-> TRUE, StatusCode |-> 0, hasBody |-> FALSE,
                   content |-> <<>>, readFails |-> FALSE]
    /\ deferred = FALSE
    /\ closes = 0
    /\ readBuf = NilBytes
    /\ fh = NilHandlerPtr
    /\ retH = NilHandlerPtr
    /\ retErr = NoErr
    /\ trail = <<>>

\* The caller of NewHandler makes no call yet.
MainIdle ==
    /\ pc = "idle"
    /\ ctor = ""
    /\ body = NilBytes
    /\ h = NilHandlerPtr
    /\ newErr = NoErr
    /\ parsed = FALSE
    /\ last = NoCall

Init ==
    /\ pc = "start"
    /\ ctor = ""
    /\ body \in Bodies
    /\ h = NilHandlerPtr
    /\ newErr = NoErr
    /\ parsed = FALSE
    /\ last = NoCall
    /\ HTTPIdle
    /\ AliasIdle
    /\ ConcIdle

\* handler, err := NewHandler(body)
CallNewHandler ==
    /\ pc = "start"
    /\ LET n == NewHandler(body)
       IN /\ h' = n.h
          /\ newErr' = n.err
          /\ parsed' = n.parsed
    /\ pc' = "made"
    /\ ctor' = "NewHandler"
    /\ UNCHANGED <<body, last, httpVars, aliasVars, concVars>>

\* h := &Handler{}: the exported type's zero value, built without a body.
MakeZeroHandler ==
    /\ pc = "start"
    /\ h' = ZeroHandler
    /\ body' = NilBytes
    /\ pc' = "made"
    /\ ctor' = "literal"
    /\ UNCHANGED <<newErr, parsed, last, httpVars, aliasVars, concVars>>

\* One accessor call, or Validate, on the handler the caller holds.
CallAccessor ==
    /\ pc = "made"
    /\ \E op \in ReadOps \cup {"Validate"} :
         /\ last' = [op |-> op, v |-> "", r |-> Invoke(op, h)]
         /\ pc' = IF last'.r.panicked THEN "panicked" ELSE "made"
    /\ UNCHANGED <<ctor, body, h, newErr, parsed, httpVars, aliasVars, concVars>>

\* err := h.UnmarshalData(v)
CallUnmarshalData ==
    /\ pc = "made"
    /\ \E v \in Targets :
         /\ last' = [op |-> "UnmarshalData", v |-> v, r |-> UnmarshalData(h, v)]
         /\ pc' = IF last'.r.panicked THEN "panicked" ELSE "made"
    /\ UNCHANGED <<ctor, body, h, newErr, parsed, httpVars, aliasVars, concVars>>

Next ==
    \/ CallNewHandler
    \/ MakeZeroHandler
    \/ CallAccessor
    \/ CallUnmarshalData

Spec == Init /\ [][Next]_vars

\* ------------------------------------------------------- error formatting
\* The same program run on the envelopes that exercise ErrorString and String:
\* a success flag, no error member or an error member with any combination of
\* code, message, details and field, and no meta, a meta without request id or
\* a meta with one.
RECURSIVE SubSeqs(_)
SubSeqs(s) ==
    IF s = <<>> THEN {<<>>}
    ELSE LET rest == SubSeqs(Tail(s))
         IN rest \cup {<<Head(s)>> \o t : t \in rest}

ErrorTexts == {<<>>} \cup {<<"E0">> \o t : t \in SubSeqs(<<"EC", "EM", "ED", "EF">>)}
MetaTexts == {<<>>, <<"MLP">>, <<"MR">>}
FmtBodySeqs ==
    {<<st>> \o e \o m : st \in {"ST", "SF"}, e \in ErrorTexts, m \in MetaTexts}

FmtInit ==
    /\ pc = "start"
    /\ ctor = ""
    /\ body \in {Bytes(s) : s \in FmtBodySeqs}
    /\ h = NilHandlerPtr
    /\ newErr = NoErr
    /\ parsed = FALSE
    /\ last = NoCall
    /\ HTTPIdle
    /\ AliasIdle
    /\ ConcIdle

SpecFmt == FmtInit /\ [][Next]_vars

\* ------------------------------------------------------- FromHTTPResponse
\* The status codes tried: both ends of [200, 299], their neighbours, and two
\* error statuses.
StatusCodes == {199, 200, 299, 300, 404, 500}

HTTPBodySeqs == UNION {[1..n -> Tokens] : n \in 0..MaxHTTPBodyLen}

\* The responses a transport hands over: nil; without a body; with a body that
\* delivers content, or fails while it is read.
HTTPResponses ==
    {[isNil |-> TRUE, StatusCode |-> 0, hasBody |-> FALSE, content |-> <<>>,
      readFails |-> FALSE]}
    \cup [isNil : {FALSE}, StatusCode : StatusCodes, hasBody : {FALSE},
          content : {<<>>}, readFails : {FALSE}]
    \cup [isNil : {FALSE}, StatusCode : StatusCodes, hasBody : {TRUE},
          content : HTTPBodySeqs, readFails : BOOLEAN]

HTTPInit ==
    /\ MainIdle
    /\ AliasIdle
    /\ ConcIdle
    /\ fpc = "entry"
    /\ httpResp \in HTTPResponses
    /\ deferred = FALSE
    /\ closes = 0
    /\ readBuf = NilBytes
    /\ fh = NilHandlerPtr
    /\ retH = NilHandlerPtr
    /\ retErr = NoErr
    /\ trail = <<>>

\* return hh, code: the results are set; the deferred calls run next.
Return(hh, code) ==
    /\ retH' = hh
    /\ retErr' = code
    /\ fpc' = "return"

\* if httpResp == nil { return nil, INVALID_RESPONSE }
HTTPNilCheck ==
    /\ fpc = "entry"
    /\ trail' = Append(trail, "nilcheck")
    /\ IF httpResp.isNil
       THEN Return(NilHandlerPtr, ErrCodeInvalidResponse)
       ELSE fpc' = "defer" /\ UNCHANGED <<retH, retErr>>
    /\ UNCHANGED <<httpResp, deferred, closes, readBuf, fh, mainVars, aliasVars, concVars>>

\* The statement that skips the defer: the body is never closed.
HTTPDeferMissing ==
    /\ fpc = "defer"
    /\ trail' = Append(trail, "defer")
    /\ deferred' = FALSE
    /\ fpc' = "bodycheck"
    /\ UNCHANGED <<httpResp, closes, readBuf, fh, retH, retErr, mainVars, aliasVars, concVars>>

\* if httpResp.Body != nil { defer func() { _ = httpResp.Body.Close() }() }
HTTPDefer ==
    /\ fpc = "defer"
    /\ trail' = Append(trail, "defer")
    /\ deferred' = httpResp.hasBody
    /\ fpc' = "bodycheck"
    /\ UNCHANGED <<httpResp, closes, readBuf, fh, retH, retErr, mainVars, aliasVars, concVars>>

\* if httpResp.Body == nil { return nil, INVALID_RESPONSE }
HTTPBodyCheck ==
    /\ fpc = "bodycheck"
    /\ trail' = Append(trail, "bodycheck")
    /\ IF ~httpResp.hasBody
       THEN Return(NilHandlerPtr, ErrCodeInvalidResponse)
       ELSE fpc' = "read" /\ UNCHANGED <<retH, retErr>>
    /\ UNCHANGED <<httpResp, deferred, closes, readBuf, fh, mainVars, aliasVars, concVars>>

\* body, err := io.ReadAll(httpResp.Body); if err != nil { return nil, IO_READ }
\* io.ReadAll returns a non-nil slice, empty when the body has no bytes.
HTTPReadAll ==
    /\ fpc = "read"
    /\ trail' = Append(trail, "read")
    /\ IF httpResp.readFails
       THEN Return(NilHandlerPtr, ErrCodeIORead) /\ UNCHANGED readBuf
       ELSE /\ readBuf' = Bytes(httpResp.content)
            /\ fpc' = "decode"
            /\ UNCHANGED <<retH, retErr>>
    /\ UNCHANGED <<httpResp, deferred, closes, fh, mainVars, aliasVars, concVars>>

\* The decode step that drops NewHandler's error and goes on to the cross-check.
HTTPDecodeIgnoresError ==
    /\ fpc = "decode"
    /\ trail' = Append(trail, "decode")
    /\ fh' = NewHandler(readBuf).h
    /\ fpc' = "status"
    /\ UNCHANGED <<httpResp, deferred, closes, readBuf, retH, retErr, mainVars, aliasVars, concVars>>

\* handler, err := NewHandler(body); if err != nil { return nil, err }
HTTPDecode ==
    /\ fpc = "decode"
    /\ trail' = Append(trail, "decode")
    /\ LET n == NewHandler(readBuf)
       IN IF n.err # NoErr
          THEN Return(NilHandlerPtr, n.err) /\ UNCHANGED fh
          ELSE fh' = n.h /\ fpc' = "status" /\ UNCHANGED <<retH, retErr>>
    /\ UNCHANGED <<httpResp, deferred, closes, readBuf, mainVars, aliasVars, concVars>>

\* The cross-check with > 300 for >= 300: status 300 passes as a success.
StatusMismatchOffByOne(code, hh) == (code < 200 \/ code > 300) /\ IsSuccess(hh).b

\* (httpResp.StatusCode < 200 || httpResp.StatusCode >= 300) && handler.IsSuccess()
StatusMismatch(code, hh) == (code < 200 \/ code >= 300) /\ IsSuccess(hh).b

\* if <mismatch> { return nil, INVALID_STATUS_CODE }; return handler, nil
HTTPStatusCheck ==
    /\ fpc = "status"
    /\ trail' = Append(trail, "status")
    /\ IF StatusMismatch(httpResp.StatusCode, fh)
       THEN Return(NilHandlerPtr, ErrCodeInvalidStatusCode)
       ELSE Return(fh, NoErr)
    /\ UNCHANGED <<httpResp, deferred, closes, readBuf, fh, mainVars, aliasVars, concVars>>

\* The function returns: a registered deferred call runs, once.
HTTPReturn ==
    /\ fpc = "return"
    /\ closes' = IF deferred THEN closes + 1 ELSE closes
    /\ deferred' = FALSE
    /\ fpc' = "done"
    /\ UNCHANGED <<httpResp, readBuf, fh, retH, retErr, trail, mainVars, aliasVars, concVars>>

HTTPNext ==
    \/ HTTPNilCheck
    \/ HTTPDefer
    \/ HTTPBodyCheck
    \/ HTTPReadAll
    \/ HTTPDecode
    \/ HTTPStatusCheck
    \/ HTTPReturn

SpecHTTP == HTTPInit /\ [][HTTPNext]_vars

\* ------------------------------------------------------- byte arrays
\* The bodies of the isolation tests and two more: success only; success with
\* an object payload; failure with a null payload; success, payload, metadata.
AliasBodies == {<<"ST">>, <<"ST", "DO">>, <<"SF", "DN">>, <<"ST", "DO", "MR">>,
                <<"SF", "EC", "EM">>, <<"ST", "MLP">>}

\* The address of the array the caller passed as body.
InputAddr == 1

AliasInit ==
    /\ MainIdle
    /\ HTTPIdle
    /\ ConcIdle
    /\ apc = "start"
    /\ mem \in {<<b>> : b \in AliasBodies}
    /\ ah = NoRefHandler
    /\ held = <<>>
    /\ firstRaw = NotCalled
    /\ lastRaw = NotCalled
    /\ firstData = NotCalled
    /\ lastData = NotCalled
    /\ inputWritten = FALSE
    /\ observed = <<>>

\* The handler as its methods see it: the slices read through their arrays.
View(rh, m) ==
    [isNil |-> rh.isNil,
     resp |-> [rh.resp EXCEPT !.Data = IF rh.dataAddr = 0 THEN <<>> ELSE m[rh.dataAddr]],
     body |-> IF rh.bodyAddr = 0 THEN NilBytes ELSE Bytes(m[rh.bodyAddr])]

\* The accessors whose results a caller compares over time.
ObservedOps == {"RawBody", "IsSuccess", "IsError", "GetError", "ErrorString",
                "GetRequestID", "IsRateLimited", "Validate"}
Observe(hh) == [op \in ObservedOps |-> Invoke(op, hh)]

\* Handler{resp: &resp, body: body}: the field holds the caller's slice, no copy.
StoredBody(in, fresh) == in

\* RawBody that returns h.body itself.
RawBodyNoCopy(src, fresh) == src

\* body := make([]byte, len(h.body)); copy(body, h.body); return body
RawBodyCopy(src, fresh) == fresh

\* data := make(json.RawMessage, len(h.resp.Data)); copy(data, h.resp.Data)
GetDataCopy(src, fresh) == fresh

\* The arrays after a slice was returned at address a with content c: a fresh
\* address is a new array.
Allocate(m, a, c) == IF a = Len(m) + 1 THEN Append(m, c) ELSE m

\* handler, err := NewHandler(body).  json.RawMessage's UnmarshalJSON appends
\* the payload's bytes to the field's own array.
AliasNewHandler ==
    /\ apc = "start"
    /\ LET n == NewHandler(Bytes(mem[InputAddr]))
           hasData == Len(n.h.resp.Data) > 0
           m1 == IF hasData THEN Append(mem, n.h.resp.Data) ELSE mem
           b == StoredBody(InputAddr, Len(m1) + 1)
       IN IF n.err # NoErr
          THEN apc' = "failed" /\ UNCHANGED <<mem, ah, observed>>
          ELSE /\ apc' = "made"
               /\ mem' = Allocate(m1, b, mem[InputAddr])
               /\ ah' = [isNil |-> FALSE, resp |-> n.h.resp, bodyAddr |-> b,
                         dataAddr |-> IF hasData THEN Len(m1) ELSE 0]
               /\ observed' = Observe(View(ah', mem'))
    /\ UNCHANGED <<held, firstRaw, lastRaw, firstData, lastData, inputWritten>>
    /\ UNCHANGED <<mainVars, httpVars, concVars>>

\* raw := h.RawBody(); the caller keeps the slice.
AliasRawBody ==
    /\ apc = "made"
    /\ Len(held) < MaxReturned
    /\ LET r == RawBody(View(ah, mem))
           a == RawBodyCopy(ah.bodyAddr, Len(mem) + 1)
           res == [called |-> TRUE, nonnil |-> r.nonnil, bytes |-> r.bytes]
       IN /\ mem' = IF r.nonnil THEN Allocate(mem, a, r.bytes) ELSE mem
          /\ held' = IF r.nonnil THEN Append(held, a) ELSE held
          /\ lastRaw' = res
          /\ firstRaw' = IF firstRaw.called THEN firstRaw ELSE res
    /\ UNCHANGED <<apc, ah, firstData, lastData, inputWritten, observed>>
    /\ UNCHANGED <<mainVars, httpVars, concVars>>

\* data := h.GetData(); the caller keeps the slice.
AliasGetData ==
    /\ apc = "made"
    /\ Len(held) < MaxReturned
    /\ LET r == GetData(View(ah, mem))
           a == GetDataCopy(ah.dataAddr, Len(mem) + 1)
           res == [called |-> TRUE, nonnil |-> r.nonnil, bytes |-> r.bytes]
       IN /\ mem' = IF r.nonnil THEN Allocate(mem, a, r.bytes) ELSE mem
          /\ held' = IF r.nonnil THEN Append(held, a) ELSE held
          /\ lastData' = res
          /\ firstData' = IF firstData.called THEN firstData ELSE res
    /\ UNCHANGED <<apc, ah, firstRaw, lastRaw, inputWritten, observed>>
    /\ UNCHANGED <<mainVars, httpVars, concVars>>

\* slice[i] = 'X' on a slice an accessor returned.
AliasOverwriteReturned ==
    /\ apc = "made"
    /\ \E k \in 1..Len(held) : \E i \in 1..Len(mem[held[k]]) :
          /\ mem[held[k]][i] # "X"
          /\ mem' = [mem EXCEPT ![held[k]][i] = "X"]
    /\ UNCHANGED <<apc, ah, held, firstRaw, lastRaw, firstData, lastData, inputWritten,
                   observed>>
    /\ UNCHANGED <<mainVars, httpVars, concVars>>

\* body[i] = 'X' on the slice the caller passed to NewHandler.
AliasOverwriteInput ==
    /\ apc = "made"
    /\ \E i \in 1..Len(mem[InputAddr]) :
          /\ mem[InputAddr][i] # "X"
          /\ mem' = [mem EXCEPT ![InputAddr][i] = "X"]
    /\ inputWritten' = TRUE
    /\ UNCHANGED <<apc, ah, held, firstRaw, lastRaw, firstData, lastData, observed>>
    /\ UNCHANGED <<mainVars, httpVars, concVars>>

\* The accessors that hand out a pointer into the handler's envelope.
PointerOps == {"Response", "GetError", "GetMeta", "GetRateLimit", "GetRateLimitReset"}

\* The envelope after an assignment through the pointer op returned:
\* p.Success = !p.Success, p.Code = "X", p.RequestID = "X", p.Remaining = 0,
\* *p = time.Time{}.
WriteThrough(op, r) ==
    CASE op = "Response" -> [r EXCEPT !.Success = ~r.Success]
      [] op = "GetError" -> [r EXCEPT !.Error.Code = "X"]
      [] op = "GetMeta" -> [r EXCEPT !.Meta.RequestID = "X"]
      [] op = "GetRateLimit" -> [r EXCEPT !.Meta.RateLimit.Remaining = 0]
      [] op = "GetRateLimitReset" -> [r EXCEPT !.Meta.RateLimit.Reset = 0]

\* p := h.Response() (or GetError, GetMeta, GetRateLimit, GetRateLimitReset);
\* if p != nil, the caller assigns through p.
AliasWriteThroughPointer ==
    /\ apc = "made"
    /\ \E op \in PointerOps :
          /\ Invoke(op, View(ah, mem)).nonnil
          /\ ah' = [ah EXCEPT !.resp = WriteThrough(op, ah.resp)]
          /\ ah' # ah
    /\ UNCHANGED <<apc, mem, held, firstRaw, lastRaw, firstData, lastData, inputWritten,
                   observed>>
    /\ UNCHANGED <<mainVars, httpVars, concVars>>

AliasNext ==
    \/ AliasNewHandler
    \/ AliasRawBody
    \/ AliasGetData
    \/ AliasOverwriteReturned
    \/ AliasOverwriteInput
    \/ AliasWriteThroughPointer

SpecAlias == AliasInit /\ [][AliasNext]_vars

\* ------------------------------------------------------- goroutines
\* The accessors the goroutines of the concurrency test call.
ConcOps == {"IsSuccess", "GetRequestID", "GetData", "IsRateLimited", "ErrorString",
            "String"}
\* The accessors that go on computing after their locking callee returned.
PostLockOps == {"GetRequestID", "IsRateLimited", "ErrorString", "String"}

\* The test's body; a failure envelope without payload or metadata; a failure
\* envelope with a full error detail and an exhausted rate limit.
ConcBodies == {<<"ST", "DO", "MR">>, <<"SF", "EC">>, <<"SF", "EC", "EM", "ML0">>}

ConcInit ==
    /\ MainIdle
    /\ HTTPIdle
    /\ AliasIdle
    /\ ch \in {NewHandler(Bytes(b)).h : b \in ConcBodies}
    /\ readers = 0
    /\ writer = FALSE
    /\ tpc = [t \in Threads |-> "idle"]
    /\ top = [t \in Threads |-> ""]
    /\ tval = [t \in Threads |-> Ret]
    /\ tret = [t \in Threads |-> NoCall]

\* The method that takes the lock for op: GetRequestID and IsRateLimited (via
\* GetRateLimit) lock inside GetMeta, ErrorString inside GetError, and String
\* inside the callee of GetRequestID or of ErrorString, by the success flag it
\* read without the lock.
LockedMethod(op, hh) ==
    CASE op = "IsSuccess" -> IsSuccess(hh)
      [] op = "GetData" -> GetData(hh)
      [] op = "GetRequestID" -> GetMeta(hh)
      [] op = "IsRateLimited" -> GetMeta(hh)
      [] op = "ErrorString" -> GetError(hh)
      [] op = "String" -> IF hh.resp.Success THEN GetMeta(hh) ELSE GetError(hh)

\* The memory the locked part of op reads.
LockedReads(op) ==
    CASE op = "IsSuccess" -> {"h.resp", "resp.Success"}
      [] op = "GetData" -> {"h.resp", "resp.Data"}
      [] op = "GetRequestID" -> {"h.resp", "resp.Meta"}
      [] op = "IsRateLimited" -> {"h.resp", "resp.Meta"}
      [] op = "ErrorString" -> {"h.resp", "resp.Error"}
      [] op = "String" ->
            {"h.resp"} \cup (IF ch.resp.Success THEN {"resp.Meta"} ELSE {"resp.Error"})
      [] OTHER -> {}

\* The memory op reads without the lock, once its locking callee returned v.
AfterReads(op, v) ==
    IF ~v.nonnil THEN {}
    ELSE CASE op = "GetRequestID" -> {"meta.RequestID"}
           [] op = "IsRateLimited" -> {"meta.RateLimit", "ratelimit.Remaining"}
           [] op = "ErrorString" -> {"error.Code", "error.Message", "error.Details",
                                     "error.Field"}
           [] op = "String" ->
                 IF ch.resp.Success THEN {"meta.RequestID"}
                 ELSE {"error.Code", "error.Message", "error.Details", "error.Field"}
           [] OTHER -> {}

\* What op computes from the value v its locking callee returned.
AfterLock(op, v) ==
    LET id == IF ~v.nonnil THEN "" ELSE v.metav.RequestID
        e == v.errv
        parts == <<e.Code>>
                 \o (IF e.Message # "" THEN <<e.Message>> ELSE <<>>)
                 \o (IF e.Details # "" THEN <<e.Details>> ELSE <<>>)
                 \o (IF e.Field # "" THEN <<"field: " \o e.Field>> ELSE <<>>)
        es == IF ~v.nonnil THEN "" ELSE JoinParts(Head(parts), Tail(parts))
    IN CASE op = "GetRequestID" -> RetStr(id)
         [] op = "IsRateLimited" ->
               RetBool(v.nonnil /\ v.metav.RateLimit.set
                         /\ v.metav.RateLimit.Remaining <= 0)
         [] op = "ErrorString" -> RetStr(es)
         [] op = "String" ->
               IF ch.resp.Success THEN
                   IF id # "" THEN RetStr("Handler(Success, RequestID=" \o id \o ")")
                   ELSE RetStr("Handler(Success)")
               ELSE IF es # "" THEN RetStr("Handler(Error=" \o es \o ")")
               ELSE RetStr("Handler(Error)")

\* A GetData that trims the stored payload in place while it holds the read lock.
LockedWritesTrim(op) == IF op = "GetData" THEN {"resp.Data"} ELSE {}

\* The memory the locked part of op writes: no accessor assigns to a field.
LockedWrites(op) == {}

\* The memory goroutine t's next step touches, and how.
Accesses(t) ==
    IF tpc[t] = "locked" THEN
        [loc : LockedReads(top[t]), write : {FALSE}]
        \cup [loc : LockedWrites(top[t]), write : {TRUE}]
    ELSE IF tpc[t] = "after" THEN
        [loc : AfterReads(top[t], tval[t]), write : {FALSE}]
    ELSE IF tpc[t] = "rlock" /\ top[t] = "String" THEN
        [loc : {"h.resp", "resp.Success"}, write : {FALSE}]
    ELSE {}

\* go func() { h.<op>() }: the call starts.
ThreadCall(t) ==
    /\ tpc[t] = "idle"
    /\ \E op \in ConcOps : top' = [top EXCEPT ![t] = op]
    /\ tpc' = [tpc EXCEPT ![t] = "rlock"]
    /\ tval' = [tval EXCEPT ![t] = Ret]
    /\ tret' = [tret EXCEPT ![t] = NoCall]
    /\ UNCHANGED <<ch, readers, writer>>
    /\ UNCHANGED <<mainVars, httpVars, aliasVars>>

\* h.mu.RLock(): waits while the write lock is held.
ThreadRLock(t) ==
    /\ tpc[t] = "rlock"
    /\ ~writer
    /\ readers' = readers + 1
    /\ tpc' = [tpc EXCEPT ![t] = "locked"]
    /\ UNCHANGED <<ch, writer, top, tval, tret>>
    /\ UNCHANGED <<mainVars, httpVars, aliasVars>>

\* The method's statements between RLock and the deferred RUnlock.
ThreadRead(t) ==
    /\ tpc[t] = "locked"
    /\ tval' = [tval EXCEPT ![t] = LockedMethod(top[t], ch)]
    /\ tpc' = [tpc EXCEPT ![t] = "runlock"]
    /\ UNCHANGED <<ch, readers, writer, top, tret>>
    /\ UNCHANGED <<mainVars, httpVars, aliasVars>>

\* An unlock that is not deferred and is skipped by the early return of a
\* method that found nothing to hand out.
ThreadRUnlockSkippedOnNil(t) ==
    /\ tpc[t] = "runlock"
    /\ readers' = IF top[t] # "IsSuccess" /\ ~tval[t].nonnil THEN readers
                  ELSE readers - 1
    /\ tpc' = [tpc EXCEPT ![t] = IF top[t] \in PostLockOps THEN "after" ELSE "return"]
    /\ UNCHANGED <<ch, writer, top, tval, tret>>
    /\ UNCHANGED <<mainVars, httpVars, aliasVars>>

\* defer h.mu.RUnlock(), as the locking method returns.
ThreadRUnlock(t) ==
    /\ tpc[t] = "runlock"
    /\ readers' = readers - 1
    /\ tpc' = [tpc EXCEPT ![t] = IF top[t] \in PostLockOps THEN "after" ELSE "return"]
    /\ UNCHANGED <<ch, writer, top, tval, tret>>
    /\ UNCHANGED <<mainVars, httpVars, aliasVars>>

\* The accessor's own statements after its locking callee returned, as
\* GetRequestID after GetMeta: if meta == nil { return "" }; return meta.RequestID
ThreadAfter(t) ==
    /\ tpc[t] = "after"
    /\ tval' = [tval EXCEPT ![t] = AfterLock(top[t], tval[t])]
    /\ tpc' = [tpc EXCEPT ![t] = "return"]
    /\ UNCHANGED <<ch, readers, writer, top, tret>>
    /\ UNCHANGED <<mainVars, httpVars, aliasVars>>

\* The call returns to the goroutine.
ThreadReturn(t) ==
    /\ tpc[t] = "return"
    /\ tret' = [tret EXCEPT ![t] = [op |-> top[t], v |-> "", r |-> tval[t]]]
    /\ tpc' = [tpc EXCEPT ![t] = "idle"]
    /\ UNCHANGED <<ch, readers, writer, top, tval>>
    /\ UNCHANGED <<mainVars, httpVars, aliasVars>>

ConcNext ==
    \E t \in Threads :
        \/ ThreadCall(t)
        \/ ThreadRLock(t)
        \/ ThreadRead(t)
        \/ ThreadRUnlock(t)
        \/ ThreadAfter(t)
        \/ ThreadReturn(t)

SpecConc == ConcInit /\ [][ConcNext]_vars

\* A call that has started keeps being scheduled: the goroutine is runnable at
\* each of its steps, RLock included, since RLock waits for a writer only.
ThreadProgress(t) ==
    \/ ThreadRLock(t)
    \/ ThreadRead(t)
    \/ ThreadRUnlock(t)
    \/ ThreadAfter(t)
    \/ ThreadReturn(t)

\* The handler shared where termination is checked: its envelope has an error
\* detail and metadata with a rate limit, and GetData() finds no payload and
\* returns early.
ConcLiveBody == <<"SF", "EC", "EM", "ML0">>

ConcLiveInit ==
    /\ ConcInit
    /\ ch = NewHandler(Bytes(ConcLiveBody)).h

SpecConcLive ==
    /\ ConcLiveInit
    /\ [][ConcNext]_vars
    /\ \A t \in Threads : WF_vars(ThreadProgress(t))

\* The package's functions and the functions of the package each one calls.
Functions ==
    {"NewHandler", "FromHTTPResponse", "IsSuccess", "IsError", "GetError",
     "ErrorString", "GetData", "UnmarshalData", "GetMeta", "GetRequestID",
     "GetRateLimit", "IsRateLimited", "GetRateLimitReset", "GetRateLimitStatus",
     "GetAPIVersion", "GetTimestamp", "String", "RawBody", "Response", "Validate"}
Callees(f) ==
    CASE f = "FromHTTPResponse" -> {"NewHandler", "IsSuccess"}
      [] f = "ErrorString" -> {"GetError"}
      [] f = "UnmarshalData" -> {"GetData"}
      [] f \in {"GetRequestID", "GetRateLimit", "GetAPIVersion", "GetTimestamp"} ->
            {"GetMeta"}
      [] f \in {"IsRateLimited", "GetRateLimitReset", "GetRateLimitStatus"} ->
            {"GetRateLimit"}
      [] f = "String" -> {"GetRequestID", "ErrorString"}
      [] OTHER -> {}
\* The functions whose body is h.mu.RLock(); defer h.mu.RUnlock(); ...
TakesRLock == {"IsSuccess", "IsError", "GetError", "GetData", "GetMeta", "RawBody",
               "Response"}
\* The functions that call h.mu.Lock(): none does.
TakesLock == {}

\* =================================================================== claims
\* The handler the caller holds is a real object (not the nil pointer).
Held == pc # "start" /\ ~h.isNil
Envelope == h.resp

\* ------------------------------------------------------------------- C1
\* The response's body was read and decoded into an envelope.
HTTPDecoded ==
    /\ ~httpResp.isNil /\ httpResp.hasBody /\ ~httpResp.readFails
    /\ NewHandler(Bytes(httpResp.content)).err = NoErr
HTTPStatusOK == httpResp.StatusCode \in 200..299

\* C1: when the body decodes, the status code is outside [200, 299] and the
\* decoded success flag is true, FromHTTPResponse returns INVALID_STATUS_CODE
\* and a nil handler; whenever it returns a handler, the status code is in
\* [200, 299] or the handler's success flag is false.
C1_StatusCrossCheck ==
    fpc = "done" =>
        /\ (/\ HTTPDecoded
            /\ ~HTTPStatusOK
            /\ NewHandler(Bytes(httpResp.content)).h.resp.Success)
              => retErr = ErrCodeInvalidStatusCode /\ retH.isNil
        /\ ~retH.isNil => HTTPStatusOK \/ ~retH.resp.Success
        /\ retErr = ErrCodeInvalidStatusCode =>
              HTTPDecoded /\ ~HTTPStatusOK /\ fh.resp.Success

\* Status 300, just past the range, with a success envelope was refused.
C1_Witness ==
    /\ fpc = "done"
    /\ httpResp.StatusCode = 300
    /\ fh.resp.Success
    /\ retErr = ErrCodeInvalidStatusCode
    /\ retH.isNil

\* ------------------------------------------------------------------- C2
\* C2: a call of FromHTTPResponse with a non-nil response whose body is non-nil
\* has closed the body exactly once when it has returned, whichever return
\* statement it took; the body is never closed twice, and it is not closed
\* before the function returns.
C2_ClosedExactlyOnce ==
    /\ closes <= 1
    /\ fpc = "done" /\ ~httpResp.isNil /\ httpResp.hasBody => closes = 1
    /\ fpc = "done" /\ ~httpResp.hasBody => closes = 0
    /\ fpc \notin {"done", "idle"} => closes = 0

\* The read failed, and the body was closed once on that return path.
C2_Witness ==
    /\ fpc = "done"
    /\ httpResp.hasBody /\ httpResp.readFails
    /\ retErr = ErrCodeIORead
    /\ closes = 1

\* ------------------------------------------------------------------- C3
\* C3: NewHandler returns exactly one of a handler and an error.  A nil or
\* zero-length body gives EMPTY_RESPONSE and a nil handler, and json.Unmarshal
\* is not called; a non-empty body that json.Unmarshal rejects gives
\* JSON_UNMARSHAL and a nil handler; every other body gives a non-nil handler,
\* holding the decoded envelope and the body, and no error.
C3_NewHandlerOutcomes ==
    ctor = "NewHandler" =>
        LET empty == body.isNil \/ Len(body.bytes) = 0
            u == UnmarshalResponse(body.bytes)
        IN /\ h.isNil <=> newErr # NoErr
           /\ empty => newErr = ErrCodeEmptyResponse /\ h.isNil /\ ~parsed
           /\ ~empty /\ ~u.ok => newErr = ErrCodeJSONUnmarshal /\ h = NilHandlerPtr
           /\ ~empty /\ u.ok =>
                newErr = NoErr /\ ~h.isNil /\ h.resp = u.resp /\ h.body = body

\* A body with a member of the wrong type was rejected after parsing.
C3_Witness ==
    /\ ctor = "NewHandler"
    /\ body = Bytes(<<"SF", "SX">>)
    /\ newErr = ErrCodeJSONUnmarshal
    /\ h.isNil
    /\ parsed

\* ------------------------------------------------------------------- C4
\* C4: IsError() on a handler with an envelope is true exactly when success is
\* false and an error detail is present; on a handler without an envelope
\* IsError() is true and IsSuccess() is false.
C4_IsErrorTable ==
    Held =>
        /\ last.op = "IsError" /\ Envelope.set =>
              (last.r.b <=> ~Envelope.Success /\ Envelope.Error.set)
        /\ last.op = "IsError" /\ ~Envelope.set => last.r.b
        /\ last.op = "IsSuccess" /\ ~Envelope.set => ~last.r.b
        /\ last.op \in {"IsError", "IsSuccess"} => ~last.r.panicked

\* IsError() returned false although an error detail is present: success is true.
C4_Witness ==
    /\ Held
    /\ last.op = "IsError"
    /\ Envelope.set /\ Envelope.Success /\ Envelope.Error.set
    /\ ~last.r.b

\* ------------------------------------------------------------------- C5
\* C5: on a handler with an envelope Validate() returns no error exactly when
\* (success or an error detail is present) and (no error detail, or code and
\* message both non-empty), and INVALID_RESPONSE otherwise; the payload and
\* the metadata have no part in it.
C5_ValidateIff ==
    Held /\ last.op = "Validate" /\ Envelope.set =>
        LET e == Envelope.Error
            good == /\ Envelope.Success \/ e.set
                    /\ ~e.set \/ (e.Code # "" /\ e.Message # "")
        IN last.r.err = IF good THEN NoErr ELSE ErrCodeInvalidResponse

\* Success is true, the error detail has no message, and Validate rejected it.
C5_Witness ==
    /\ Held
    /\ last.op = "Validate"
    /\ Envelope.set /\ Envelope.Success
    /\ Envelope.Error.set /\ Envelope.Error.Code # "" /\ Envelope.Error.Message = ""
    /\ last.r.err = ErrCodeInvalidResponse

\* ------------------------------------------------------------------- C6
\* What UnmarshalData's fixed order of checks yields, the last case aside.
C6_FirstFailure(v) ==
    IF v = "nil" THEN ErrCodeInvalidResponse
    ELSE IF Len(Envelope.Data) = 0 THEN ErrCodeEmptyData
    ELSE IF ~UnmarshalInto(Envelope.Data, v).ok THEN ErrCodeJSONUnmarshal
    ELSE NoErr

\* C6 as claimed: UnmarshalData reports the first of nil target
\* (INVALID_RESPONSE), absent or zero-length payload (EMPTY_DATA), payload that
\* does not decode into the target (JSON_UNMARSHAL); otherwise it returns no
\* error and the target is populated.
C6_AsClaimed ==
    Held /\ last.op = "UnmarshalData" =>
        /\ ~last.r.panicked
        /\ last.r.err = C6_FirstFailure(last.v)
        /\ last.r.err = NoErr => last.r.target = "populated"

\* C6 (amended): UnmarshalData reports the first of nil target
\* (INVALID_RESPONSE), absent or zero-length payload (EMPTY_DATA), payload that
\* does not decode into the target (JSON_UNMARSHAL); otherwise it returns no
\* error, and the target is populated unless the payload is the JSON literal
\* null, which decodes without an error and without populating the target; a
\* target is never populated when an error is returned.
C6_UnmarshalDataOrder ==
    Held /\ last.op = "UnmarshalData" =>
        /\ ~last.r.panicked
        /\ last.r.err = C6_FirstFailure(last.v)
        /\ last.r.err = NoErr =>
              (last.r.target = "populated" <=> Envelope.Data # NullPayload)
        /\ last.r.err # NoErr => last.r.target = "untouched"

\* A nil target with no payload at all: INVALID_RESPONSE, not EMPTY_DATA.
C6_Witness ==
    /\ Held
    /\ last.op = "UnmarshalData"
    /\ last.v = "nil"
    /\ Envelope.set /\ Len(Envelope.Data) = 0
    /\ last.r.err = ErrCodeInvalidResponse

\* ------------------------------------------------------------------- C7
\* What RawBody() and GetData() return if called now.
RawBodyNow ==
    LET r == RawBody(View(ah, mem))
    IN [called |-> TRUE, nonnil |-> r.nonnil, bytes |-> r.bytes]
GetDataNow ==
    LET r == GetData(View(ah, mem))
    IN [called |-> TRUE, nonnil |-> r.nonnil, bytes |-> r.bytes]

\* C7: RawBody() and GetData() return fresh copies.  As long as the caller
\* overwrites bytes of returned slices only, the latest call of each returned
\* what its first call returned, and so does a call made now; GetData()
\* returns absent exactly when the payload is missing or zero-length.
C7_ReturnedCopies ==
    apc = "made" /\ ~inputWritten =>
        /\ firstRaw.called => lastRaw = firstRaw /\ RawBodyNow = firstRaw
        /\ firstData.called => lastData = firstData /\ GetDataNow = firstData
        /\ firstData.called => (firstData.nonnil <=> Len(ah.resp.Data) > 0)
        /\ firstRaw.called => firstRaw.nonnil /\ firstRaw.bytes \in AliasBodies

\* Two RawBody() calls with an overwrite of the first slice in between.
C7_Witness ==
    /\ apc = "made" /\ ~inputWritten
    /\ Len(held) = 2
    /\ mem[held[1]][1] = "X"
    /\ ah.bodyAddr # held[1]
    /\ lastRaw = firstRaw /\ lastRaw.bytes = mem[held[2]]
    /\ mem[held[2]] # mem[held[1]]

\* ------------------------------------------------------------------- C8
\* Two goroutines are about to touch the same memory and one of them writes.
DataRace ==
    \E t1, t2 \in Threads :
        /\ t1 # t2
        /\ \E a1 \in Accesses(t1), a2 \in Accesses(t2) :
              a1.loc = a2.loc /\ (a1.write \/ a2.write)

\* C8: with any number of goroutines calling IsSuccess(), GetRequestID() and
\* GetData() (and IsRateLimited(), ErrorString(), String()) on one handler,
\* in every interleaving each finished call returned what the same call
\* returns when run alone, and no step writes handler state
\* that another goroutine's step reads or writes at the same time.
C8_ConcurrentReads ==
    /\ ~DataRace
    /\ \A t \in Threads :
          tret[t].op # "" => tret[t].r = Invoke(tret[t].op, ch)

\* Both goroutines hold the read lock at once in GetData(): one is about to
\* read the payload, the other has copied it.
C8_Witness ==
    /\ readers = 2
    /\ tpc[1] = "locked" /\ top[1] = "GetData"
    /\ tpc[2] = "runlock" /\ top[2] = "GetData"
    /\ tval[2].nonnil /\ tval[2].bytes = ObjectPayload

\* ------------------------------------------------------------------- C9
\* C9 as claimed: every accessor read operation is total.  On a nil handler
\* reference, a handler with no envelope or a handler with no metadata it
\* returns its sentinel and never panics.
C9_AccessorsTotal ==
    pc # "start" /\ last.op \in ReadOps =>
        /\ ~last.r.panicked
        /\ h.isNil \/ ~Envelope.set =>
              /\ last.r.b = (last.op = "IsError")
              /\ ~last.r.nonnil
              /\ last.r.str \in {"", "Handler(nil)", "rate limit information not available"}

\* ------------------------------------------------------------------- C10
\* C10: IsRateLimited() is true exactly when the envelope has metadata with a
\* rate-limit block whose remaining value is <= 0; with no envelope, no
\* metadata or no rate-limit block it is false.
C10_IsRateLimitedIff ==
    Held /\ last.op = "IsRateLimited" =>
        /\ ~last.r.panicked
        /\ last.r.b <=> /\ Envelope.set
                        /\ Envelope.Meta.set
                        /\ Envelope.Meta.RateLimit.set
                        /\ Envelope.Meta.RateLimit.Remaining <= 0

\* A negative remaining value counts as rate limited.
C10_Witness ==
    /\ Held
    /\ last.op = "IsRateLimited"
    /\ Envelope.Meta.RateLimit.set
    /\ Envelope.Meta.RateLimit.Remaining < 0
    /\ last.r.b

\* ------------------------------------------------------------------- C11
\* The text the claim describes for an error detail e: code, then each of
\* message, details and "field: "+field that is non-empty, " | " between them.
C11_Joined(e) ==
    e.Code
      \o (IF e.Message # "" THEN " | " \o e.Message ELSE "")
      \o (IF e.Details # "" THEN " | " \o e.Details ELSE "")
      \o (IF e.Field # "" THEN " | field: " \o e.Field ELSE "")

\* Every text made of some of message, details and field, joined.
C11_Tails ==
    {JoinParts(Head(p), Tail(p)) :
        p \in SubSeqs(<<"m", "d", "field: f">>) \ {<<>>}}
C11_LeadingSeparator(str) == \E t \in C11_Tails : str = " | " \o t
C11_TrailingSeparator(str) ==
    \E t \in C11_Tails \cup {"", "c"} \cup {"c | " \o u : u \in C11_Tails} :
        str = t \o " | "
C11_Call == Held /\ last.op = "ErrorString"

C12_Steps == <<"nilcheck", "defer", "bodycheck", "read", "decode", "status">>
C12_Ran(step) == \E i \in 1..Len(trail) : trail[i] = step
C12_Returned == fpc \in {"return", "done"}
C12_DecodeErr == NewHandler(Bytes(httpResp.content)).err

\* C12: FromHTTPResponse runs its steps in one fixed order and returns at the
\* first that fails, running none after it: a nil response or a nil body gives
\* INVALID_RESPONSE, a failed read gives IO_READ, a failed decode gives
\* NewHandler's own error (EMPTY_RESPONSE for an empty body, JSON_UNMARSHAL for
\* a malformed one), and the status cross-check runs only after a successful
\* decode.  A status outside 2xx with an empty or malformed body never gives
\* INVALID_STATUS_CODE, and every error return carries a nil handler.
C12_FirstFailingStep ==
    /\ fpc # "idle" => trail = SubSeq(C12_Steps, 1, Len(trail))
    /\ C12_Returned =>
        /\ httpResp.isNil =>
              retErr = ErrCodeInvalidResponse /\ trail = <<"nilcheck">>
        /\ ~httpResp.isNil /\ ~httpResp.hasBody =>
              retErr = ErrCodeInvalidResponse /\ ~C12_Ran("read")
        /\ httpResp.hasBody /\ httpResp.readFails =>
              retErr = ErrCodeIORead /\ ~C12_Ran("decode")
        /\ httpResp.hasBody /\ ~httpResp.readFails /\ C12_DecodeErr # NoErr =>
              /\ retErr = C12_DecodeErr
              /\ retErr = IF httpResp.content = <<>> THEN ErrCodeEmptyResponse
                          ELSE ErrCodeJSONUnmarshal
              /\ ~C12_Ran("status")
        /\ C12_Ran("status") =>
              /\ httpResp.hasBody /\ ~httpResp.readFails
              /\ C12_DecodeErr = NoErr
              /\ retErr \in {NoErr, ErrCodeInvalidStatusCode}
        /\ retErr = ErrCodeInvalidStatusCode => C12_Ran("status")
        /\ retErr # NoErr => retH.isNil
        /\ retErr = NoErr => ~retH.isNil

\* Status 500 with a malformed body: the decoder's error came back, and the
\* cross-check never ran.
C12_Witness ==
    /\ fpc = "done"
    /\ httpResp.StatusCode = 500
    /\ httpResp.hasBody /\ ~httpResp.readFails
    /\ httpResp.content = <<"X">>
    /\ retErr = ErrCodeJSONUnmarshal
    /\ retH.isNil
    /\ trail = <<"nilcheck", "defer", "bodycheck", "read", "decode">>

\* ------------------------------------------------------------------- C13
C13_Call == Held /\ last.op = "String" /\ Envelope.set

\* C13: on a handler with an envelope String() is decided by the success flag
\* alone.  With success true it is the success summary, carrying the request
\* id exactly when a non-empty request id exists, whether or not an error
\* detail is present; with success false it is "Handler(Error=" followed by
\* ErrorString() exactly when ErrorString() is non-empty, and the bare
\* "Handler(Error)" otherwise.
C13_StringBySuccess ==
    C13_Call =>
        LET id == IF Envelope.Meta.set THEN Envelope.Meta.RequestID ELSE ""
            es == ErrorString(h).str
        IN /\ ~last.r.panicked
           /\ Envelope.Success /\ id # "" =>
                 last.r.str = "Handler(Success, RequestID=" \o id \o ")"
           /\ Envelope.Success /\ id = "" => last.r.str = "Handler(Success)"
           /\ ~Envelope.Success /\ es # "" =>
                 last.r.str = "Handler(Error=" \o es \o ")"
           /\ ~Envelope.Success /\ es = "" => last.r.str = "Handler(Error)"
           /\ ~Envelope.Success /\ ~Envelope.Error.set => es = ""

\* Success is true and an error detail is present: the success summary with
\* the request id came back.
C13_Witness ==
    /\ C13_Call
    /\ Envelope.Success
    /\ Envelope.Error.set /\ Envelope.Error.Code # ""
    /\ last.r.str = "Handler(Success, RequestID=r)"

\* ------------------------------------------------------------------- C14
\* C14 as stated: whatever the caller does after NewHandler(body) returned -
\* overwriting bytes of the slice it passed as body, or assigning through a
\* pointer that Response(), GetError(), GetMeta(), GetRateLimit() or
\* GetRateLimitReset() returned - every one of RawBody, IsSuccess, IsError,
\* GetError, ErrorString, GetRequestID, IsRateLimited and Validate returns now
\* what it returned right after construction.
C14_NeverMutated ==
    apc = "made" => Observe(View(ah, mem)) = observed

\* ------------------------------------------------------------------- C15
C15_Built == pc # "start" /\ ctor = "NewHandler" /\ ~h.isNil

\* C15: on every handler NewHandler produced, IsSuccess() and IsError() are
\* never both true; both are false exactly when success is false and no error
\* detail is present, and Validate() rejects that envelope.  So whenever
\* Validate() returns no error, exactly one of IsSuccess() and IsError() is
\* true.
C15_SuccessXorError ==
    C15_Built =>
        LET s == IsSuccess(h)
            e == IsError(h)
            v == Validate(h)
        IN /\ ~s.panicked /\ ~e.panicked /\ ~v.panicked
           /\ ~(s.b /\ e.b)
           /\ (~s.b /\ ~e.b) <=> (~Envelope.Success /\ ~Envelope.Error.set)
           /\ (~s.b /\ ~e.b) => v.err = ErrCodeInvalidResponse
           /\ v.err = NoErr => (s.b /\ ~e.b) \/ (~s.b /\ e.b)
           /\ last.op = "IsSuccess" => last.r = s
           /\ last.op = "IsError" => last.r = e
           /\ last.op = "Validate" => last.r = v

\* Validate() accepted an envelope with success true and a complete error
\* detail: IsSuccess() is true and IsError() is false.
C15_Witness ==
    /\ C15_Built
    /\ last.op = "Validate" /\ last.r.err = NoErr
    /\ Envelope.Success /\ Envelope.Error.set
    /\ IsSuccess(h).b /\ ~IsError(h).b

\* ------------------------------------------------------------------- C16
\* The goroutines that hold the read lock.
C16_Holders == {t \in Threads : tpc[t] \in {"locked", "runlock"}}
C16_NoCallInProgress == \A t \in Threads : tpc[t] = "idle"

C16_Discipline ==
    /\ \A f \in TakesRLock : Callees(f) = {}
    /\ TakesLock = {}
    /\ ~writer
    /\ readers = Cardinality(C16_Holders)
    /\ C16_NoCallInProgress => readers = 0

\* C16: every accessor that takes the read lock releases it on every return
\* path, none calls a lock-taking accessor while it holds the lock (each
\* goroutine holds at most one read lock, taken by the innermost callee), and
\* nothing takes the write lock; so the reader count is the number of
\* goroutines inside a locked section, it is zero whenever no call is in
\* progress, and every call that has started returns.
C16_LockDiscipline ==
    /\ []C16_Discipline
    /\ \A t \in Threads : (tpc[t] # "idle") ~> (tpc[t] = "idle")

\* IsRateLimited() has left GetMeta() and released the lock, and goes on
\* without it, while String() holds the lock inside its callee.
C16_Witness ==
    /\ tpc[1] = "after" /\ top[1] = "IsRateLimited"
    /\ tpc[2] = "locked" /\ top[2] = "String"
    /\ readers = 1

====
